---- MODULE Spec2Model ----
(***************************************************************************)
(* Model of src/app.py: the log-line recognizer and timestamp              *)
(* normalisation of generate_df, and the upload_zip request handler that   *)
(* merges the per-file tables, sorts them and schedules the removal of its *)
(* temporary directory.                                                    *)
(*                                                                         *)
(* Text is modelled as a sequence of one-character strings, so that the    *)
(* splitting, stripping, tokenising and parsing of the source are computed *)
(* character by character.  An optional value (Python None, pandas NaT) is *)
(* the empty sequence, a present value v is <<v>>.                         *)
(***************************************************************************)
EXTENDS Naturals, Integers, Sequences, FiniteSets

VARIABLES
    log_files,          \* upload_zip: the files found in the archive, in enumeration order
    zip_ok,             \* upload_zip: whether the upload is a readable ZIP archive
    pandas_infers,      \* build: pandas >= 2 parses a column with the format of its first element
    pc,                 \* position of the request / of the line pipeline
    all_dfs,            \* upload_zip: all_dfs, one table per file
    warnings,           \* generate_df: "Skipping malformed log line" messages printed, per file
    merged_df,          \* upload_zip: merged_df after sort_values
    response,           \* upload_zip: the response returned
    background_tasks,   \* upload_zip: number of shutil.rmtree tasks added
    tmpdir,             \* upload_zip: state of the temporary working directory
    line,               \* generate_df: one raw line (line pipeline)
    assume_utc,         \* configuration flag ASSUME_LOGS_ARE_UTC (line pipeline)
    parsed,             \* generate_df: the local variables after line 42, if the line got there
    rows,               \* generate_df: rows after the loop over the lines
    normalized          \* generate_df: the table returned (lines 66-82)

vars == <<log_files, zip_ok, pandas_infers, pc, all_dfs, warnings, merged_df,
          response, background_tasks, tmpdir, line, assume_utc, parsed, rows, normalized>>

(***************************************************************************)
(* Bounds of the model.                                                    *)
(***************************************************************************)
MaxFiles == 2
MaxRows == 3

(***************************************************************************)
(* Text helpers: Python str methods used by generate_df.                   *)
(***************************************************************************)
Min(S) == CHOOSE x \in S : \A y \in S : x <= y
Max(S) == CHOOSE x \in S : \A y \in S : x >= y

Whitespace == {" ", "\t", "\n", "\r", "\f"}
DigitChars == <<"0", "1", "2", "3", "4", "5", "6", "7", "8", "9">>
IsDigit(c) == \E i \in 1..10 : DigitChars[i] = c
DigitVal(c) == (CHOOSE i \in 1..10 : DigitChars[i] = c) - 1

\* the positions at which sep occurs in s
Occurrences(s, sep) ==
    {i \in 1..Len(s) : i + Len(sep) - 1 <= Len(s) /\ SubSeq(s, i, i + Len(sep) - 1) = sep}

\* s.rsplit(sep, 1): one part when sep is absent, else the parts around its last occurrence
rsplit_last(s, sep) ==
    LET occ == Occurrences(s, sep) IN
    IF occ = {} THEN <<s>>
    ELSE LET i == Max(occ) IN <<SubSeq(s, 1, i - 1), SubSeq(s, i + Len(sep), Len(s))>>

\* mutant of split_first: the split taken at the last occurrence of sep
split_first_at_last(s, sep) == rsplit_last(s, sep)

\* s.split(sep, 1): one part when sep is absent, else the parts around its first occurrence
split_first(s, sep) ==
    LET occ == Occurrences(s, sep) IN
    IF occ = {} THEN <<s>>
    ELSE LET i == Min(occ) IN <<SubSeq(s, 1, i - 1), SubSeq(s, i + Len(sep), Len(s))>>

\* s.strip(chars): drop every leading and trailing character that is in chars
strip(s, chars) ==
    LET keep == {i \in 1..Len(s) : s[i] \notin chars} IN
    IF keep = {} THEN <<>> ELSE SubSeq(s, Min(keep), Max(keep))

\* s.split(): the maximal runs of non-whitespace characters, in order
RECURSIVE split_ws(_)
split_ws(s) ==
    LET text == {i \in 1..Len(s) : s[i] \notin Whitespace} IN
    IF text = {} THEN <<>>
    ELSE LET b == Min(text)
             gaps == {i \in b..Len(s) : s[i] \in Whitespace}
             e == IF gaps = {} THEN Len(s) ELSE Min(gaps) - 1
         IN <<SubSeq(s, b, e)>> \o split_ws(SubSeq(s, e + 1, Len(s)))

\* the value of a run of decimal digits
RECURSIVE digits_value(_)
digits_value(s) ==
    IF s = <<>> THEN 0 ELSE 10 * digits_value(SubSeq(s, 1, Len(s) - 1)) + DigitVal(s[Len(s)])

AllDigits(s) == \A i \in 1..Len(s) : IsDigit(s[i])

\* s.split(c) on a one-character separator: every part, empty ones included
RECURSIVE split_all(_, _)
split_all(s, c) ==
    LET occ == {i \in 1..Len(s) : s[i] = c} IN
    IF occ = {} THEN <<s>>
    ELSE LET i == Min(occ) IN <<SubSeq(s, 1, i - 1)>> \o split_all(SubSeq(s, i + 1, Len(s)), c)

(***************************************************************************)
(* float(rt_ms), line 45.  A token is accepted when it is an optional sign *)
(* followed by decimal digits with at most one point (at least one digit), *)
(* or the word nan; every other token of the model raises ValueError,      *)
(* modelled as <<>> (exponents, inf and digit separators are not among the *)
(* tokens of the model).  The value is num / 10^scale.                     *)
(***************************************************************************)
float_of(tok) ==
    LET signed == tok # <<>> /\ tok[1] \in {"+", "-"}
        body == IF signed THEN SubSeq(tok, 2, Len(tok)) ELSE tok
        dots == {i \in 1..Len(body) : body[i] = "."}
        digs == SelectSeq(body, IsDigit)
    IN  IF body = <<"n", "a", "n">>
        THEN <<[nan |-> TRUE, neg |-> FALSE, num |-> 0, scale |-> 0]>>
        ELSE IF /\ digs # <<>>
                /\ Cardinality(dots) <= 1
                /\ Len(digs) + Cardinality(dots) = Len(body)
        THEN <<[nan |-> FALSE,
                neg |-> signed /\ tok[1] = "-",
                num |-> digits_value(digs),
                scale |-> IF dots = {} THEN 0 ELSE Len(body) - Min(dots)]>>
        ELSE <<>>

(***************************************************************************)
(* json.loads(json_payload), line 42, on the payload shapes of the model:  *)
(* surrounding whitespace is ignored; {...} with "key":value members       *)
(* (values: "text" without escapes, or an integer) is a dict; [..] of      *)
(* integers is a list; an integer is an int; "text" is a str; everything   *)
(* else raises JSONDecodeError (kind "error").                             *)
(***************************************************************************)
JsonWs == {" ", "\t", "\n", "\r"}
IsJsonString(s) ==
    /\ Len(s) >= 2 /\ s[1] = "\"" /\ s[Len(s)] = "\""
    /\ \A i \in 2..(Len(s) - 1) : s[i] \notin {"\"", "\\"}
IsJsonInt(s) == s # <<>> /\ AllDigits(s) /\ (Len(s) = 1 \/ s[1] # "0")
json_scalar(s) ==
    IF IsJsonString(s) THEN <<[t |-> "str", chars |-> SubSeq(s, 2, Len(s) - 1)]>>
    ELSE IF IsJsonInt(s) THEN <<[t |-> "int", chars |-> s]>>
    ELSE <<>>
\* one "key":value member as <<key, value>>, or <<>> when it is not well formed
json_member(m) ==
    LET kv == split_first(m, <<":">>)
        k == IF Len(kv) = 2 THEN strip(kv[1], JsonWs) ELSE <<>>
        v == IF Len(kv) = 2 THEN json_scalar(strip(kv[2], JsonWs)) ELSE <<>>
    IN  IF Len(kv) = 2 /\ IsJsonString(k) /\ v # <<>>
        THEN <<[key |-> SubSeq(k, 2, Len(k) - 1), value |-> v[1]]>>
        ELSE <<>>
json_loads(payload) ==
    LET s == strip(payload, JsonWs)
        inner == IF Len(s) >= 2 THEN strip(SubSeq(s, 2, Len(s) - 1), JsonWs) ELSE <<>>
        items == IF inner = <<>> THEN <<>> ELSE split_all(inner, ",")
        members == [i \in 1..Len(items) |-> json_member(items[i])]
        elems == [i \in 1..Len(items) |-> json_scalar(strip(items[i], JsonWs))]
        Error == [kind |-> "error", members |-> <<>>]
    IN  IF Len(s) >= 2 /\ s[1] = "{" /\ s[Len(s)] = "}"
        THEN IF \A i \in 1..Len(items) : members[i] # <<>>
             THEN [kind |-> "dict", members |-> [i \in 1..Len(items) |-> members[i][1]]]
             ELSE Error
        ELSE IF Len(s) >= 2 /\ s[1] = "[" /\ s[Len(s)] = "]"
        THEN IF \A i \in 1..Len(items) : elems[i] # <<>>
             THEN [kind |-> "list", members |-> <<>>]
             ELSE Error
        ELSE IF IsJsonInt(s) THEN [kind |-> "int", members |-> <<>>]
        ELSE IF IsJsonString(s) THEN [kind |-> "str", members |-> <<>>]
        ELSE Error

\* data.get(key): the value of the last member with that key, or None
dict_get(data, key) ==
    LET hits == {i \in 1..Len(data.members) : data.members[i].key = key} IN
    IF hits = {} THEN <<>> ELSE <<data.members[Max(hits)].value>>

(***************************************************************************)
(* The per-line try block of generate_df.  parse_line is lines 30-42: the  *)
(* local variables after json.loads, as <<locals>>, or <<>> when a step    *)
(* raises (the except clause of line 61 prints a warning and skips the     *)
(* line).  A payload that decodes to something that is no dict makes       *)
(* data.get raise AttributeError at line 51, caught by the same clause.    *)
(***************************************************************************)
locals_of(timestamp_str, parts, data) ==
    IF data.kind # "dict" THEN <<>>                 \* JSONDecodeError / AttributeError
    ELSE <<[timestamp_str |-> timestamp_str,
            url |-> parts[3],
            status |-> parts[4],
            rt_ms |-> parts[5],
            data |-> data]>>
parse_line(ln) ==
    LET p1 == split_first(ln, <<"]", " ", "[">>) IN
    IF Len(p1) # 2 THEN <<>>                        \* unpacking raises ValueError
    ELSE
    LET p2 == split_first(strip(p1[1], {"[", "]"}), <<" ", "-", " ">>) IN
    IF Len(p2) # 2 THEN <<>>                        \* unpacking raises ValueError
    ELSE
    LET p3 == rsplit_last(p1[2], <<"]", " ">>) IN
    IF Len(p3) # 2 THEN <<>>                        \* unpacking raises ValueError
    ELSE
    LET parts == split_ws(p3[1]) IN
    IF Len(parts) < 5 THEN <<>>                     \* raise ValueError, line 38
    ELSE
    locals_of(p2[1], parts, json_loads(p3[2]))

\* mutant of stayed_time_of: the response time is parsed whatever the status
stayed_time_any_status(status, rt_ms) == float_of(rt_ms)

\* lines 44-47: stayed_time
stayed_time_of(status, rt_ms) ==
    IF status = <<"2", "0", "0">> THEN float_of(rt_ms) ELSE <<>>

\* lines 49-60: the row appended to rows
row_of(loc) ==
    [ServiceId |-> dict_get(loc.data, <<"s", "i", "d">>),
     Vno |-> dict_get(loc.data, <<"v", "n", "o">>),
     Ano |-> dict_get(loc.data, <<"a", "n", "o">>),
     RtArea |-> dict_get(loc.data, <<"r", "t", "a", "r", "e", "a">>),
     URL |-> loc.url,
     StayedTime |-> stayed_time_of(loc.status, loc.rt_ms),
     AppVersion |-> dict_get(loc.data, <<"a", "p", "p", "V", "e", "r">>),
     Timestamp |-> loc.timestamp_str]

\* lines 27-64 for one line: the rows it contributes (none when it is skipped)
rows_of(loc) == IF loc = <<>> THEN <<>> ELSE <<row_of(loc[1])>>
recognize(ln) == rows_of(parse_line(ln))

(***************************************************************************)
(* pandas.to_datetime(column, errors="coerce"), lines 73 and 78, on the    *)
(* timestamp texts of the model.  An instant is a number of seconds since  *)
(* 1970-01-01 00:00:00; NaT is <<>>.  A text resolves as a date-time       *)
(* YYYY-MM-DD HH:MM:SS or as a date YYYY-MM-DD (midnight); every other     *)
(* text of the model is one no pandas parser resolves.  The years of the   *)
(* model are 1970 and later.                                               *)
(***************************************************************************)
IsLeap(y) == (y % 4 = 0 /\ y % 100 # 0) \/ y % 400 = 0
DaysInMonth(y, m) ==
    IF m = 2 THEN (IF IsLeap(y) THEN 29 ELSE 28)
    ELSE IF m \in {4, 6, 9, 11} THEN 30 ELSE 31
RECURSIVE DaysBeforeMonth(_, _)
DaysBeforeMonth(y, m) ==
    IF m = 1 THEN 0 ELSE DaysBeforeMonth(y, m - 1) + DaysInMonth(y, m - 1)
\* days from 1970-01-01 to the first day of year y (y >= 1970)
DaysBeforeYear(y) ==
    365 * (y - 1970) + ((y - 1969) \div 4) - ((y - 1901) \div 100) + ((y - 1601) \div 400)

IsDateText(s) ==
    /\ Len(s) = 10
    /\ s[5] = "-" /\ s[8] = "-"
    /\ \A i \in {1, 2, 3, 4, 6, 7, 9, 10} : IsDigit(s[i])
    /\ LET y == digits_value(SubSeq(s, 1, 4))
           m == digits_value(SubSeq(s, 6, 7))
           d == digits_value(SubSeq(s, 9, 10))
       IN y >= 1970 /\ m \in 1..12 /\ d >= 1 /\ d <= DaysInMonth(y, m)
IsTimeText(s) ==
    /\ Len(s) = 8
    /\ s[3] = ":" /\ s[6] = ":"
    /\ \A i \in {1, 2, 4, 5, 7, 8} : IsDigit(s[i])
    /\ digits_value(SubSeq(s, 1, 2)) <= 23
    /\ digits_value(SubSeq(s, 4, 5)) <= 59
    /\ digits_value(SubSeq(s, 7, 8)) <= 59

\* the format pandas finds for one text: "%Y-%m-%d %H:%M:%S", "%Y-%m-%d" or none
layout_of(s) ==
    IF Len(s) = 19 /\ IsDateText(SubSeq(s, 1, 10)) /\ s[11] = " " /\ IsTimeText(SubSeq(s, 12, 19))
    THEN "datetime"
    ELSE IF IsDateText(s) THEN "date"
    ELSE "none"

date_seconds(s) ==
    LET y == digits_value(SubSeq(s, 1, 4))
        m == digits_value(SubSeq(s, 6, 7))
        d == digits_value(SubSeq(s, 9, 10))
    IN 86400 * (DaysBeforeYear(y) + DaysBeforeMonth(y, m) + d - 1)
time_seconds(s) ==
    3600 * digits_value(SubSeq(s, 1, 2)) + 60 * digits_value(SubSeq(s, 4, 5))
        + digits_value(SubSeq(s, 7, 8))

\* one text parsed on its own
parse_text(s) ==
    IF layout_of(s) = "datetime"
    THEN <<date_seconds(SubSeq(s, 1, 10)) + time_seconds(SubSeq(s, 12, 19))>>
    ELSE IF layout_of(s) = "date" THEN <<date_seconds(s)>>
    ELSE <<>>

(***************************************************************************)
(* to_datetime on a column.  pandas before 2.0 parses every element on its *)
(* own.  pandas 2.0 and later guesses the format of the first non-empty    *)
(* element and, when it finds one, parses the whole column with exactly    *)
(* that format (an element in another format becomes NaT); when it finds   *)
(* none it falls back to parsing every element on its own.  Which one runs *)
(* is a property of the installation: infers.                              *)
(***************************************************************************)
to_datetime(col, infers) ==
    LET nonempty == {i \in 1..Len(col) : col[i] # <<>>}
        guess == IF nonempty = {} THEN "none" ELSE layout_of(col[Min(nonempty)])
    IN  [i \in 1..Len(col) |->
            IF infers /\ guess # "none" /\ layout_of(col[i]) # guess
            THEN <<>>
            ELSE parse_text(col[i])]

(***************************************************************************)
(* LOCAL_TZ = ZoneInfo("Asia/Colombo"), line 12: the offset from UTC, in   *)
(* seconds, that the zone has at UTC instant t (t >= 0, 1970 onwards):     *)
(* +05:30 until 1996-05-24 18:30:00 UTC, +06:30 until 1996-10-25 18:00:00  *)
(* UTC, +06:00 until 2006-04-14 18:30:00 UTC, +05:30 since.                *)
(***************************************************************************)
LOCAL_TZ(t) ==
    IF t < 832962600 THEN 19800
    ELSE IF t < 846266400 THEN 23400
    ELSE IF t < 1145039400 THEN 21600
    ELSE 19800

\* lines 75 and 79 on the parsed column t: the UTC instants shown as LOCAL_TZ wall clock
\* when assume is set; the result still holds NaT (<<>>) for the rows dropna removes
tz_convert(t, assume) ==
    [i \in 1..Len(t) |->
        IF t[i] = <<>> THEN <<>>
        ELSE IF assume THEN <<t[i][1] + LOCAL_TZ(t[i][1])>>
        ELSE t[i]]
timestamp_column(col, assume, infers) == tz_convert(to_datetime(col, infers), assume)

\* rows, the list built by the loop of lines 26-64 (recs[i] is what line i contributed)
RECURSIVE collect(_)
collect(recs) == IF recs = <<>> THEN <<>> ELSE recs[1] \o collect(Tail(recs))

\* dropna, lines 74 and 79: the rows whose Timestamp ts[i] is not NaT, in order
RECURSIVE dropna(_, _)
dropna(collected, ts) ==
    IF collected = <<>> THEN <<>>
    ELSE (IF ts[1] = <<>> THEN <<>> ELSE <<[collected[1] EXCEPT !.Timestamp = ts[1][1]]>>)
         \o dropna(Tail(collected), Tail(ts))

\* lines 66-82 on rows
table_of(collected, assume, infers) ==
    dropna(collected,
           timestamp_column([i \in 1..Len(collected) |-> collected[i].Timestamp], assume, infers))

\* lines 66-82 on the rows collected from a file's lines (recs[i] is what line i
\* contributed): the table returned, and the number of warnings printed by line 63
aggregate(recs, assume, infers) ==
    [raised |-> FALSE,
     df |-> table_of(collect(recs), assume, infers),
     warnings |-> Cardinality({i \in 1..Len(recs) : recs[i] = <<>>})]

(***************************************************************************)
(* Inputs of the line pipeline: a line is a head, a first delimiter, a     *)
(* message tail, a second delimiter, a payload and a line end, each drawn  *)
(* from well-formed and defective samples.                                 *)
(***************************************************************************)
Digits2(n) == <<DigitChars[(n \div 10) + 1], DigitChars[(n % 10) + 1]>>
Digits4(n) == Digits2(n \div 100) \o Digits2(n % 100)
DateText(y, m, d) == Digits4(y) \o <<"-">> \o Digits2(m) \o <<"-">> \o Digits2(d)
TimeText(h, m, sec) == Digits2(h) \o <<":">> \o Digits2(m) \o <<":">> \o Digits2(sec)
DateTimeText(y, m, d, h, mi, sec) == DateText(y, m, d) \o <<" ">> \o TimeText(h, mi, sec)

TimestampTexts ==
    {DateTimeText(2025, 10, 8, 7, 4, 56),
     DateTimeText(2025, 1, 1, 0, 0, 0),
     DateTimeText(2024, 12, 31, 23, 0, 0),
     DateTimeText(2024, 2, 29, 18, 30, 0),
     DateTimeText(2006, 4, 14, 18, 30, 0),
     DateTimeText(2000, 1, 1, 0, 0, 0),
     DateTimeText(1996, 7, 1, 12, 0, 0),
     DateTimeText(1980, 1, 1, 0, 0, 0),
     DateText(2025, 10, 8),
     <<"n", "o", "t", "a", "t", "i", "m", "e">>,
     <<>>}

Severity == <<" ", "-", " ", "I", "N", "F", "O">>
Heads ==
    {<<"[">> \o t \o Severity : t \in TimestampTexts}
    \cup {<<"[", "[">> \o DateTimeText(2025, 1, 1, 0, 0, 0) \o Severity \o <<"]">>,
          <<"[">> \o DateTimeText(2025, 1, 1, 0, 0, 0) \o <<" ", "I", "N", "F", "O">>,
          <<"[">> \o DateTimeText(2025, 1, 1, 0, 0, 0) \o Severity \o <<" ", "-", " ", "x">>,
          <<"[">> \o DateTimeText(2025, 1, 1, 0, 0, 0) \o Severity \o <<"]", " ", "[", "a">>}
\* the delimiter between head and remainder, and two defective forms
FirstDelimiters ==
    {<<"]", " ", "[">>,   \* ] [
     <<"]", "[">>,   \* ][
     <<"]", " ">>   \* ] 
    }
\* message tails: five tokens, four tokens, another status, a non-numeric time, an inner "] "
Tails ==
    {<<"m", "a", "i", "n", "]", " ", "G", "E", "T", " ", "/", "a", " ", "2", "0", "0", " ", "1", "5", "2">>,   \* main] GET /a 200 152
     <<"G", "E", "T", " ", "/", "a", " ", "2", "0", "0", " ", "1", "5", "2">>,   \* GET /a 200 152
     <<"m", "a", "i", "n", "]", " ", "G", "E", "T", " ", "/", "b", " ", "5", "0", "0", " ", "4", "2">>,   \* main] GET /b 500 42
     <<"m", "a", "i", "n", "]", " ", "G", "E", "T", " ", "/", "a", " ", "2", "0", "0", " ", "a", "b", "c">>,   \* main] GET /a 200 abc
     <<"m", "]", " ", "G", "E", "T", " ", " ", "/", "a", "\t", "2", "0", "0", " ", "1", ".", "5", " ", "x", "]", " ", "y">>,   \* m] GET  /a\t200 1.5 x] y
     <<"m", "]", " ", "n", " ", "/", "c", " ", "2", "0", "0", " ", "n", "a", "n">>   \* m] n /c 200 nan
    }
\* the delimiter before the payload, and two defective forms
SecondDelimiters ==
    {<<"]", " ">>,   \* ] 
     <<"]">>,   \* ]
     <<" ">>   \*  
    }
\* payloads: objects, a list, a truncated object, a number, an object holding "] "
Payloads ==
    {<<"{", "\"", "s", "i", "d", "\"", ":", "\"", "s", "1", "\"", ",", "\"", "v", "n", "o", "\"", ":", "\"", "7", "\"", "}">>,   \* {"sid":"s1","vno":"7"}
     <<"{", "}">>,   \* {}
     <<"[", "1", "]">>,   \* [1]
     <<"{", "\"", "s", "i", "d", "\"", ":">>,   \* {"sid":
     <<"7">>,   \* 7
     <<"{", "\"", "a", "\"", ":", "\"", "]", " ", "x", "\"", "}">>   \* {"a":"] x"}
    }
\* the line end read from the file
LineEnds ==
    {<<"\n">>,   \* \n
     <<>>   \* (empty)
    }

Lines ==
    {h \o d1 \o t \o d2 \o p \o e :
        h \in Heads, d1 \in FirstDelimiters, t \in Tails, d2 \in SecondDelimiters,
        p \in Payloads, e \in LineEnds}

(***************************************************************************)
(* Inputs of the request: the archive holds files whose lines are drawn    *)
(* from LineTable; a file may also hold bytes that are not UTF-8.          *)
(***************************************************************************)
TAIL_A == <<"m", "a", "i", "n", "]", " ", "G", "E", "T", " ", "/", "a", " ", "2", "0", "0", " ", "1", "5", "2">>
TAIL_B == <<"m", "a", "i", "n", "]", " ", "G", "E", "T", " ", "/", "b", " ", "5", "0", "0", " ", "4", "2">>
PAYLOAD_A == <<"{", "\"", "s", "i", "d", "\"", ":", "\"", "s", "1", "\"", ",", "\"", "v", "n", "o", "\"", ":", "\"", "7", "\"", "}">>
PAYLOAD_B == <<"{", "}">>
MALFORMED == <<"n", "o", "t", " ", "a", " ", "l", "o", "g", " ", "l", "i", "n", "e">>
LineTable ==
    <<\* 1: well formed, 2025-01-01 00:00:00
      <<"[">> \o DateTimeText(2025, 1, 1, 0, 0, 0) \o Severity \o <<"]", " ", "[">>
          \o TAIL_A \o <<"]", " ">> \o PAYLOAD_A \o <<"\n">>,
      \* 2: well formed, 2024-12-31 23:00:00
      <<"[">> \o DateTimeText(2024, 12, 31, 23, 0, 0) \o Severity \o <<"]", " ", "[">>
          \o TAIL_B \o <<"]", " ">> \o PAYLOAD_B \o <<"\n">>,
      \* 3: malformed, no delimiter at all
      MALFORMED \o <<"\n">>,
      \* 4: well formed but for a timestamp that is no date
      <<"[">> \o <<"n", "o", "t", "a", "t", "i", "m", "e">> \o Severity \o <<"]", " ", "[">>
          \o TAIL_A \o <<"]", " ">> \o PAYLOAD_B \o <<"\n">>,
      \* 5: well formed, 2025-01-01 00:00:00 again, another request
      <<"[">> \o DateTimeText(2025, 1, 1, 0, 0, 0) \o Severity \o <<"]", " ", "[">>
          \o TAIL_B \o <<"]", " ">> \o PAYLOAD_B \o <<"\n">>,
      \* 6: well formed, the timestamp a date without a time
      <<"[">> \o DateText(2025, 10, 8) \o Severity \o <<"]", " ", "[">>
          \o TAIL_A \o <<"]", " ">> \o PAYLOAD_A \o <<"\n">>
    >>
LineIds == 1..Len(LineTable)

\* what each line of LineTable contributes to rows (lines 27-64)
recognized_lines == [i \in LineIds |-> recognize(LineTable[i])]

SeqsUpTo(S, n) == UNION {[1..k -> S] : k \in 0..n}
RECURSIVE SumSizes(_)
SumSizes(sh) == IF sh = <<>> THEN 0 ELSE (IF sh[1] < 0 THEN 0 ELSE sh[1]) + SumSizes(Tail(sh))
\* the shapes of an archive: per file its number of lines, or -1 for a file that is not UTF-8
Shapes == {sh \in SeqsUpTo(-1..MaxRows, MaxFiles) : SumSizes(sh) <= MaxRows}
\* the archive of shape sh whose lines, file after file, are those of flat
ArchiveOf(sh, flat) ==
    [i \in 1..Len(sh) |->
        IF sh[i] < 0 THEN [decodable |-> FALSE, lines |-> <<>>]
        ELSE [decodable |-> TRUE,
              lines |-> SubSeq(flat, SumSizes(SubSeq(sh, 1, i - 1)) + 1,
                                     SumSizes(SubSeq(sh, 1, i)))]]

(***************************************************************************)
(* generate_df(file_path), lines 23-82.  Reading a file that is not UTF-8  *)
(* raises UnicodeDecodeError from the for statement of line 26, outside    *)
(* the try block, so generate_df raises.                                   *)
(***************************************************************************)
ASSUME_LOGS_ARE_UTC == TRUE
generate_df(file, infers) ==
    IF ~file.decodable
    THEN [raised |-> TRUE, df |-> <<>>, warnings |-> 0]
    ELSE aggregate([i \in 1..Len(file.lines) |-> recognized_lines[file.lines[i]]],
                   ASSUME_LOGS_ARE_UTC, infers)

\* mutant of valid_dfs_of: the empty tables are kept
valid_dfs_unfiltered(dfs) == dfs

\* line 110: the tables that are not empty
valid_dfs_of(dfs) == SelectSeq(dfs, LAMBDA df : df # <<>>)

\* line 116: pd.concat(valid_dfs, ignore_index=True)
RECURSIVE concat(_)
concat(dfs) == IF dfs = <<>> THEN <<>> ELSE dfs[1] \o concat(Tail(dfs))

RemoveAt(s, i) == SubSeq(s, 1, i - 1) \o SubSeq(s, i + 1, Len(s))

(***************************************************************************)
(* merged_df.sort_values("Timestamp"), line 117.  The sort kind is the     *)
(* default, quicksort, which is not a stable sort: the result is ordered   *)
(* by Timestamp, and rows with equal Timestamp may come out in any order.  *)
(* The set of the orders the call may produce.                             *)
(***************************************************************************)
\* mutant of sort_values: the rows are left in the order of the concatenation
sort_values_skipped(df) == {df}

RECURSIVE sort_values(_)
sort_values(df) ==
    IF df = <<>> THEN {<<>>}
    ELSE LET least == {i \in 1..Len(df) :
                          \A j \in 1..Len(df) : df[i].Timestamp <= df[j].Timestamp}
         IN UNION {{<<df[i]>> \o t : t \in sort_values(RemoveAt(df, i))} : i \in least}

NoCsv == <<>>
Idle == "idle"

Init ==
    /\ zip_ok \in BOOLEAN
    /\ IF zip_ok
       THEN \E sh \in Shapes : \E flat \in [1..SumSizes(sh) -> LineIds] :
                log_files = ArchiveOf(sh, flat)
       ELSE log_files = <<>>
    /\ pandas_infers \in BOOLEAN
    /\ pc = "request"
    /\ all_dfs = <<>>
    /\ warnings = <<>>
    /\ merged_df = NoCsv
    /\ response = Idle
    /\ background_tasks = 0
    /\ tmpdir = "absent"
    /\ line = <<>> /\ assume_utc = ASSUME_LOGS_ARE_UTC /\ parsed = <<>> /\ rows = <<>>
    /\ normalized = <<>>

\* lines 131-134: the except clause
Unexpected(printed) ==
    /\ background_tasks' = background_tasks + 1
    /\ response' = [status |-> 500, body |-> "unexpected_error"]
    /\ all_dfs' = <<>>
    /\ warnings' = printed
    /\ merged_df' = NoCsv

\* lines 110-129, given the tables of line 109
Merge(dfs, valid_dfs) ==
    /\ all_dfs' = dfs
    /\ IF valid_dfs = <<>>
       THEN /\ response' = [status |-> 400, body |-> "no_valid_entries"]     \* line 113
            /\ UNCHANGED <<merged_df, background_tasks>>
       ELSE /\ \E sorted \in sort_values(concat(valid_dfs)) :                \* lines 116-117
                   merged_df' = <<sorted>>
            /\ background_tasks' = background_tasks + 1                      \* line 127
            /\ response' = [status |-> 200, body |-> "csv"]                  \* line 129

\* lines 109-129, given what generate_df does for each file
ParseLogs(results, failed) ==
    IF failed # {}
    THEN Unexpected([i \in 1..(Min(failed) - 1) |-> results[i].warnings])
    ELSE /\ warnings' = [i \in 1..Len(results) |-> results[i].warnings]
         /\ Merge([i \in 1..Len(results) |-> results[i].df],
                  valid_dfs_of([i \in 1..Len(results) |-> results[i].df]))

(***************************************************************************)
(* upload_zip, lines 86-134: the whole handler, from mkdtemp to the return *)
(* of a response.                                                          *)
(***************************************************************************)
UploadZip ==
    /\ pc = "request"
    /\ pc' = "returned"
    /\ tmpdir' = "exists"                                            \* line 88
    /\ UNCHANGED <<log_files, zip_ok, pandas_infers, line, assume_utc, parsed, rows,
                   normalized>>
    /\ IF ~zip_ok
       THEN Unexpected(<<>>)                                         \* BadZipFile, line 100
       ELSE IF log_files = <<>>
       THEN /\ response' = [status |-> 400, body |-> "no_log_files"] \* line 106
            /\ UNCHANGED <<all_dfs, warnings, merged_df, background_tasks>>
       ELSE ParseLogs([i \in 1..Len(log_files) |-> generate_df(log_files[i], pandas_infers)],
                      {i \in 1..Len(log_files) : ~log_files[i].decodable})

\* the framework sends the response returned by the handler
SendResponse ==
    /\ pc = "returned"
    /\ pc' = "sent"
    /\ UNCHANGED <<log_files, zip_ok, pandas_infers, all_dfs, warnings, merged_df, response,
                   background_tasks, tmpdir, line, assume_utc, parsed, rows, normalized>>

\* the framework runs the background tasks once the response is sent: shutil.rmtree(tmpdir)
RunBackgroundTasks ==
    /\ pc = "sent"
    /\ background_tasks > 0
    /\ pc' = "cleaned"
    /\ tmpdir' = "removed"
    /\ UNCHANGED <<log_files, zip_ok, pandas_infers, all_dfs, warnings, merged_df, response,
                   background_tasks, line, assume_utc, parsed, rows, normalized>>

Next == UploadZip \/ SendResponse \/ RunBackgroundTasks

Spec == Init /\ [][Next]_vars

(***************************************************************************)
(* The line pipeline: generate_df applied to a file of one line.           *)
(***************************************************************************)
InitLine ==
    /\ line \in Lines
    /\ assume_utc \in BOOLEAN
    /\ pandas_infers \in BOOLEAN
    /\ pc = "line"
    /\ parsed = <<>>
    /\ rows = <<>>
    /\ normalized = <<>>
    /\ log_files = <<>> /\ zip_ok = TRUE /\ all_dfs = <<>> /\ warnings = <<>>
    /\ merged_df = <<>> /\ response = Idle /\ background_tasks = 0 /\ tmpdir = Idle

\* generate_df on a file holding the one line: the loop of lines 26-64, then lines 66-82
LineDone(r) ==
    /\ normalized' = r.df
    /\ warnings' = <<r.warnings>>
GenerateDfLine ==
    /\ pc = "line"
    /\ parsed' = parse_line(line)
    /\ rows' = rows_of(parsed')
    /\ LineDone(aggregate(<<rows'>>, assume_utc, pandas_infers))
    /\ pc' = "done"
    /\ UNCHANGED <<log_files, zip_ok, pandas_infers, all_dfs, merged_df, response,
                   background_tasks, tmpdir, line, assume_utc>>

NextLine == GenerateDfLine

SpecLine == InitLine /\ [][NextLine]_vars

(***************************************************************************)
(* Properties of the request (specification Spec).                         *)
(***************************************************************************)
Returned == pc \in {"returned", "sent", "cleaned"}
\* line 109 ran to its end: every file was read and all_dfs holds one table per file
Processed ==
    Returned /\ zip_ok /\ log_files # <<>> /\ \A i \in 1..Len(log_files) : log_files[i].decodable
Merged == merged_df[1]
Range(sq) == {sq[i] : i \in 1..Len(sq)}
Count(r, sq) == Cardinality({i \in 1..Len(sq) : sq[i] = r})
IsPermutation(a, b) ==
    Len(a) = Len(b) /\ \A r \in Range(a) \cup Range(b) : Count(r, a) = Count(r, b)
Ascending(sq) == \A i \in 1..(Len(sq) - 1) : sq[i].Timestamp <= sq[i + 1].Timestamp
WithTimestamp(sq, t) == SelectSeq(sq, LAMBDA r : r.Timestamp = t)

\* C1: rows with identical timestamps keep, in the merged table, the relative order they
\* have in the concatenation of the per-file tables (file order, then line order).
C1_MergeIsStable ==
    merged_df # NoCsv =>
        \A r \in Range(Merged) :
            WithTimestamp(Merged, r.Timestamp) = WithTimestamp(concat(all_dfs), r.Timestamp)

\* the end-to-end example: file1 = a valid line at 2025-01-01 00:00:00 and a malformed
\* line, file2 = a valid line at 2024-12-31 23:00:00
EndToEndArchive ==
    <<[decodable |-> TRUE, lines |-> <<1, 3>>], [decodable |-> TRUE, lines |-> <<2>>]>>

\* C2: whenever the files hold at least one normalized record the merged table exists, is
\* a permutation of the concatenation of the per-file tables and ascends by Timestamp; on
\* the end-to-end example it is file2's record followed by file1's record.
C2_CorpusIsSortedPermutation ==
    /\ merged_df # NoCsv =>
          /\ IsPermutation(Merged, concat(all_dfs))
          /\ Ascending(Merged)
    /\ (Processed /\ concat(all_dfs) # <<>>) =>
          /\ merged_df # NoCsv
          /\ response = [status |-> 200, body |-> "csv"]
    /\ (Returned /\ zip_ok /\ log_files = EndToEndArchive) =>
          /\ Len(all_dfs[1]) = 1 /\ Len(all_dfs[2]) = 1
          /\ merged_df = <<all_dfs[2] \o all_dfs[1]>>
          /\ Merged[1].URL = <<"/", "b">> /\ Merged[2].URL = <<"/", "a">>
          /\ Merged[1].Timestamp < Merged[2].Timestamp

C2_Witness ==
    pc = "returned" /\ zip_ok /\ log_files = EndToEndArchive /\ merged_df # NoCsv
        /\ Len(Merged) = 2

\* C3: no line and no file is fatal: the request never ends in the unexpected-error
\* response, and when some line of some file yields a normalized record the response
\* carries a merged table.
C3_NothingBelowCorpusIsFatal ==
    (Returned /\ zip_ok /\ log_files # <<>>) =>
        /\ response.status # 500
        /\ (\E i \in 1..Len(log_files) :
                log_files[i].decodable /\ generate_df(log_files[i], pandas_infers).df # <<>>)
            => response.status = 200

\* C4: when every file yields an empty table the response is the no-valid-entries error
\* and no merged table exists; a file with an empty table is no error when another file
\* yields a record.
C4_EmptyCorpusError ==
    Processed =>
        /\ (\A i \in 1..Len(all_dfs) : all_dfs[i] = <<>>) =>
              /\ response = [status |-> 400, body |-> "no_valid_entries"]
              /\ merged_df = NoCsv
        /\ (\E i \in 1..Len(all_dfs) : all_dfs[i] # <<>>) =>
              /\ response.status = 200
              /\ merged_df # NoCsv

\* every recognized line of some file has an unresolvable timestamp, and nothing is valid
C4_Witness ==
    /\ Processed
    /\ \E i \in 1..Len(log_files) : log_files[i].lines = <<4>>
    /\ response = [status |-> 400, body |-> "no_valid_entries"]

\* the table the fixed format YYYY-MM-DD HH:MM:SS gives for a file: line by line, the
\* recognized lines whose raw timestamp has that format
RECURSIVE FixedFormatTable(_)
FixedFormatTable(ids) ==
    IF ids = <<>> THEN <<>>
    ELSE LET rec == recognized_lines[ids[1]] IN
         (IF rec # <<>> /\ layout_of(rec[1].Timestamp) = "datetime"
          THEN table_of(rec, ASSUME_LOGS_ARE_UTC, FALSE)
          ELSE <<>>)
         \o FixedFormatTable(Tail(ids))

\* C8: the table of a file is the recognized lines whose raw timestamp has the format
\* YYYY-MM-DD HH:MM:SS, in line order, each line kept or dropped on its own.
C8_FixedFormatSubsequence ==
    Processed => \A i \in 1..Len(log_files) : all_dfs[i] = FixedFormatTable(log_files[i].lines)

\* C9: for every file, the malformed-line count plus the number of rows of its table is
\* the number of its lines.
C9_MalformedCount ==
    Processed =>
        \A i \in 1..Len(log_files) : warnings[i] + Len(all_dfs[i]) = Len(log_files[i].lines)

\* C10: once the handler has returned, the removal of the temporary directory has been
\* scheduled exactly once, and the directory is removed only after the response is sent.
C10_CleanupScheduledOnce ==
    /\ Returned => background_tasks = 1
    /\ tmpdir = "removed" => pc = "cleaned"

(***************************************************************************)
(* Properties of the line pipeline (specification SpecLine).  The          *)
(* reference grammar is stated on positions in the line.                   *)
(***************************************************************************)
BracketGap == <<"]", " ", "[">>
Dash == <<" ", "-", " ">>
BracketSpace == <<"]", " ">>
RefHead(ln) == strip(SubSeq(ln, 1, Min(Occurrences(ln, BracketGap)) - 1), {"[", "]"})
RefRemainder(ln) == SubSeq(ln, Min(Occurrences(ln, BracketGap)) + 3, Len(ln))
RefTail(ln) == SubSeq(RefRemainder(ln), 1, Max(Occurrences(RefRemainder(ln), BracketSpace)) - 1)
RefPayload(ln) ==
    SubSeq(RefRemainder(ln), Max(Occurrences(RefRemainder(ln), BracketSpace)) + 2,
           Len(RefRemainder(ln)))
RefTokens(ln) == split_ws(RefTail(ln))
RefAccepts(ln) ==
    /\ Occurrences(ln, BracketGap) # {}
    /\ Occurrences(RefHead(ln), Dash) # {}
    /\ Occurrences(RefRemainder(ln), BracketSpace) # {}
    /\ Len(RefTokens(ln)) >= 5
    /\ json_loads(RefPayload(ln)).kind = "dict"

\* C5: a line that misses a delimiter, has fewer than 5 tokens or a payload that is no
\* object is skipped; every other line gives exactly one row whose url and status are
\* tokens 2 and 3 of the message tail and whose raw timestamp is the head before " - ".
C5_RecognizeAgreesWithGrammar ==
    pc = "done" =>
        IF RefAccepts(line)
        THEN /\ Len(rows) = 1 /\ Len(parsed) = 1 /\ warnings = <<0>>
             /\ rows[1].URL = RefTokens(line)[3]
             /\ parsed[1].url = RefTokens(line)[3]
             /\ parsed[1].status = RefTokens(line)[4]
             /\ rows[1].Timestamp =
                    SubSeq(RefHead(line), 1, Min(Occurrences(RefHead(line), Dash)) - 1)
        ELSE rows = <<>> /\ parsed = <<>> /\ warnings = <<1>>

\* an accepted line in which "] [" occurs twice
C5_Witness ==
    pc = "done" /\ Len(rows) = 1 /\ Cardinality(Occurrences(line, BracketGap)) = 2

\* a token that reads as a decimal number: an optional sign, digits, at most one point
IsNumberText(tok) ==
    LET body == IF tok # <<>> /\ tok[1] \in {"+", "-"} THEN Tail(tok) ELSE tok
        pieces == split_all(body, ".")
    IN  /\ Len(pieces) <= 2
        /\ \A i \in 1..Len(pieces) : AllDigits(pieces[i])
        /\ \E i \in 1..Len(pieces) : pieces[i] # <<>>
\* a Stayed Time that is neither None nor NaN
NonNull(v) == v # <<>> /\ ~v[1].nan

\* C6: on every recognized line the Stayed Time is non-null exactly when the status is
\* "200" and the token at position 4 reads as a number; the line is never skipped for it.
C6_StayedTimeIffOkAndNumeric ==
    (pc = "done" /\ RefAccepts(line)) =>
        /\ Len(rows) = 1
        /\ NonNull(rows[1].StayedTime) <=>
              (RefTokens(line)[4] = <<"2", "0", "0">> /\ IsNumberText(RefTokens(line)[5]))

\* a recognized line with status 500 and a numeric token: the Stayed Time is None
C6_Witness ==
    /\ pc = "done" /\ Len(rows) = 1
    /\ RefTokens(line)[4] = <<"5", "0", "0">> /\ IsNumberText(RefTokens(line)[5])
    /\ rows[1].StayedTime = <<>>

\* the offset UTC+05:30, in seconds
FixedOffsetSeconds == 19800

\* C7: with assume_source_is_utc the normalized instant is the parsed instant plus
\* 5 hours 30 minutes, whatever the date; without it, the parsed instant unchanged.
C7_OffsetIsAlwaysFiveThirty ==
    (pc = "done" /\ normalized # <<>>) =>
        normalized[1].Timestamp =
            parse_text(rows[1].Timestamp)[1] + (IF assume_utc THEN FixedOffsetSeconds ELSE 0)

====
